---- MODULE Spec2Model ----
(***************************************************************************)
(* Model of src/src/lib.rs: the csgrs/egui wireframe viewer.               *)
(*                                                                         *)
(* Number representation.                                                  *)
(*   f32 scalars (zoom, scroll, pixels, radians, projected coordinates)    *)
(*     are fixed-point integers in thousandths (Milli).  The two scalars   *)
(*     that can meet a non-finite value (scroll, zoom) are tagged records: *)
(*     [k |-> "num", v |-> thousandths], [k |-> "inf", v |-> +1 or -1],    *)
(*     [k |-> "nan", v |-> 0].                                             *)
(*   Quaternion components are exact numbers (a + b*sqrt(2))/2, written    *)
(*     <<a, b>>: the values sin and cos take at the multiples of pi/4.     *)
(*     Drag deltas are multiples of DragUnit (50*pi pixels), for which     *)
(*     yaw and pitch are multiples of pi/2 and the half angles multiples   *)
(*     of pi/4.                                                            *)
(*   Mesh coordinates (csgrs Real) are integers in millionths; the snap    *)
(*     grid of CsgrsApp::new is 1e-5, so a key is a triple of integers in  *)
(*     hundred-thousandths.                                                *)
(***************************************************************************)
EXTENDS Integers, Sequences, FiniteSets, TLC

VARIABLES
    pc,           \* "start": before construction, "run": the app exists
    mesh,         \* cube.polygons: the polygons handed to CsgrsApp::new
    rotation,     \* CsgrsApp.rotation: Quat
    translation,  \* CsgrsApp.translation: egui::Vec2
    zoom,         \* CsgrsApp.zoom: f32
    edges,        \* CsgrsApp.edges: Vec<(Vec3, Vec3)>
    segments,     \* the line_segment calls of the current frame, in order
    frames        \* number of update calls so far

vars == <<pc, mesh, rotation, translation, zoom, edges, segments, frames>>

----------------------------------------------------------------------------
(* Bounds of the exploration *)

MaxFrames == 2

----------------------------------------------------------------------------
(* f32 arithmetic in thousandths *)

Milli == 1000

Abs(n) == IF n < 0 THEN -n ELSE n

Sign(n) == IF n < 0 THEN -1 ELSE IF n > 0 THEN 1 ELSE 0

\* n / d rounded to the nearest integer, halves away from zero (d > 0)
RoundDiv(n, d) == Sign(n) * ((Abs(n) + (d \div 2)) \div d)

\* a * b and a / b on f32, rounded to the nearest thousandth
FMul(a, b) == (a * b + 500) \div Milli

FDiv(a, b) == IF b > 0 THEN (2 * a * Milli + b) \div (2 * b)
              ELSE (-2 * a * Milli - b) \div (-2 * b)

Min(a, b) == IF a < b THEN a ELSE b

Num(v) == [k |-> "num", v |-> v]

PosInf == [k |-> "inf", v |-> 1]

NegInf == [k |-> "inf", v |-> -1]

NaN == [k |-> "nan", v |-> 0]

\* IEEE multiplication: NaN is absorbing, 0 * inf is NaN
MulT(a, b) ==
    IF a.k = "nan" \/ b.k = "nan" THEN NaN
    ELSE IF a.k = "inf" \/ b.k = "inf"
         THEN IF Sign(a.v) * Sign(b.v) = 0 THEN NaN
              ELSE [k |-> "inf", v |-> Sign(a.v) * Sign(b.v)]
         ELSE Num(FMul(a.v, b.v))

\* IEEE addition: inf + (-inf) is NaN
AddT(a, b) ==
    IF a.k = "nan" \/ b.k = "nan" THEN NaN
    ELSE IF a.k = "inf" /\ b.k = "inf"
         THEN IF a.v = b.v THEN a ELSE NaN
         ELSE IF a.k = "inf" THEN a
         ELSE IF b.k = "inf" THEN b
         ELSE Num(a.v + b.v)

\* a < b on f32: false when either side is NaN
LessT(a, b) ==
    /\ a.k # "nan"
    /\ b.k # "nan"
    /\ IF a.k = "inf" THEN a.v < 0 /\ a # b
       ELSE IF b.k = "inf" THEN b.v > 0
       ELSE a.v < b.v

\* f32::abs
AbsT(a) == IF a.k = "nan" THEN NaN ELSE [k |-> a.k, v |-> Abs(a.v)]

\* f32::clamp: a NaN stays NaN
ClampT(x, lo, hi) ==
    IF LessT(x, lo) THEN lo
    ELSE IF LessT(hi, x) THEN hi
    ELSE x

----------------------------------------------------------------------------
(* Exact quaternion arithmetic: a component <<a, b>> is (a + b*sqrt(2))/2 *)

S0 == <<0, 0>>

S1 == <<2, 0>>

SAdd(s, t) == <<s[1] + t[1], s[2] + t[2]>>

SSub(s, t) == <<s[1] - t[1], s[2] - t[2]>>

\* numerator of s*t over the denominator 4
SMul(s, t) == <<s[1] * t[1] + 2 * s[2] * t[2], s[1] * t[2] + s[2] * t[1]>>

\* a sum of products over 4, brought back to the denominator 2
SHalf(s) == <<s[1] \div 2, s[2] \div 2>>

\* glam Quat: <<x, y, z, w>>
IDENTITY == <<S0, S0, S0, S1>>

\* QMul with a sign slipped in the last term of w
QMulSignSlip(p, q) ==
    LET x0 == p[1]  y0 == p[2]  z0 == p[3]  w0 == p[4]
        x1 == q[1]  y1 == q[2]  z1 == q[3]  w1 == q[4]
    IN << SHalf(SSub(SAdd(SAdd(SMul(w0, x1), SMul(x0, w1)), SMul(y0, z1)), SMul(z0, y1))),
          SHalf(SAdd(SAdd(SSub(SMul(w0, y1), SMul(x0, z1)), SMul(y0, w1)), SMul(z0, x1))),
          SHalf(SAdd(SSub(SAdd(SMul(w0, z1), SMul(x0, y1)), SMul(y0, x1)), SMul(z0, w1))),
          SHalf(SAdd(SSub(SSub(SMul(w0, w1), SMul(x0, x1)), SMul(y0, y1)), SMul(z0, z1))) >>

\* glam Quat::mul_quat
QMul(p, q) ==
    LET x0 == p[1]  y0 == p[2]  z0 == p[3]  w0 == p[4]
        x1 == q[1]  y1 == q[2]  z1 == q[3]  w1 == q[4]
    IN << SHalf(SSub(SAdd(SAdd(SMul(w0, x1), SMul(x0, w1)), SMul(y0, z1)), SMul(z0, y1))),
          SHalf(SAdd(SAdd(SSub(SMul(w0, y1), SMul(x0, z1)), SMul(y0, w1)), SMul(z0, x1))),
          SHalf(SAdd(SSub(SAdd(SMul(w0, z1), SMul(x0, y1)), SMul(y0, x1)), SMul(z0, w1))),
          SHalf(SSub(SSub(SSub(SMul(w0, w1), SMul(x0, x1)), SMul(y0, y1)), SMul(z0, z1))) >>

\* pi in millionths of a radian
Pi == 3141593

\* pi/4 in millionths of a radian
EighthTurn == Pi \div 4

\* the multiple of pi/4 nearest to an angle given in thousandths of a radian
Eighths(angle) == RoundDiv(angle * Milli, EighthTurn) % 8

\* cos at the multiples of pi/4
Cos(angle) ==
    LET n == Eighths(angle)
    IN CASE n = 0 -> <<2, 0>>
         [] n = 1 -> <<0, 1>>
         [] n = 2 -> <<0, 0>>
         [] n = 3 -> <<0, -1>>
         [] n = 4 -> <<-2, 0>>
         [] n = 5 -> <<0, -1>>
         [] n = 6 -> <<0, 0>>
         [] n = 7 -> <<0, 1>>

\* sin at the multiples of pi/4
Sin(angle) ==
    LET n == Eighths(angle)
    IN CASE n = 0 -> <<0, 0>>
         [] n = 1 -> <<0, 1>>
         [] n = 2 -> <<2, 0>>
         [] n = 3 -> <<0, 1>>
         [] n = 4 -> <<0, 0>>
         [] n = 5 -> <<0, -1>>
         [] n = 6 -> <<-2, 0>>
         [] n = 7 -> <<0, -1>>

\* from_rotation_x with sin and cos exchanged
from_rotation_x_swapped(angle) == <<Cos(FMul(angle, 500)), S0, S0, Sin(FMul(angle, 500))>>

\* glam Quat::from_rotation_x: (sin(angle/2), 0, 0, cos(angle/2))
from_rotation_x(angle) == <<Sin(FMul(angle, 500)), S0, S0, Cos(FMul(angle, 500))>>

\* glam Quat::from_rotation_y: (0, sin(angle/2), 0, cos(angle/2))
from_rotation_y(angle) == <<S0, Sin(FMul(angle, 500)), S0, Cos(FMul(angle, 500))>>

\* a quaternion component as an f32, sqrt(2) = 1.414
ToF32(s) == RoundDiv(s[1] * Milli + s[2] * 1414, 2)

----------------------------------------------------------------------------
(* The polygons csgrs hands to CsgrsApp::new.  A polygon is the sequence   *)
(* of its vertex positions, a position a triple in millionths.             *)

\* CSG::cube(2.0, 2.0, 2.0).center(): the 8 corners (+-1, +-1, +-1)
CubeVertex ==
    << <<-1000000, -1000000, -1000000>>, << 1000000, -1000000, -1000000>>,
       << 1000000,  1000000, -1000000>>, <<-1000000,  1000000, -1000000>>,
       <<-1000000, -1000000,  1000000>>, << 1000000, -1000000,  1000000>>,
       << 1000000,  1000000,  1000000>>, <<-1000000,  1000000,  1000000>> >>

CubeFace ==
    << <<1, 4, 3, 2>>, <<5, 6, 7, 8>>, <<1, 2, 6, 5>>,
       <<4, 8, 7, 3>>, <<1, 5, 8, 4>>, <<2, 3, 7, 6>> >>

\* CSG::icosahedron(2.0).center(): the 12 vertices (0, +-a, +-b) and their
\* cyclic shifts, a = 1.051462, b = 1.701302 (circumradius 2)
IcoA == 1051462

IcoB == 1701302

IcoVertex ==
    << <<-IcoA,  IcoB, 0>>, << IcoA,  IcoB, 0>>, <<-IcoA, -IcoB, 0>>, << IcoA, -IcoB, 0>>,
       <<0, -IcoA,  IcoB>>, <<0,  IcoA,  IcoB>>, <<0, -IcoA, -IcoB>>, <<0,  IcoA, -IcoB>>,
       << IcoB, 0, -IcoA>>, << IcoB, 0,  IcoA>>, <<-IcoB, 0, -IcoA>>, <<-IcoB, 0,  IcoA>> >>

IcoFace ==
    << <<1, 12, 6>>, <<1, 6, 2>>,  <<1, 2, 8>>,   <<1, 8, 11>>, <<1, 11, 12>>,
       <<2, 6, 10>>, <<6, 12, 5>>, <<12, 11, 3>>, <<11, 8, 7>>, <<8, 2, 9>>,
       <<4, 10, 5>>, <<4, 5, 3>>,  <<4, 3, 7>>,   <<4, 7, 9>>,  <<4, 9, 10>>,
       <<5, 10, 6>>, <<3, 5, 12>>, <<7, 3, 11>>,  <<9, 7, 8>>,  <<10, 9, 2>> >>

Reverse(s) == [i \in 1..Len(s) |-> s[Len(s) + 1 - i]]

\* the polygons of a solid; the faces in `flipped` are wound the other way
Polygons(vertex, face, flipped) ==
    [f \in 1..Len(face) |->
        LET poly == [i \in 1..Len(face[f]) |-> vertex[face[f][i]]]
        IN IF f \in flipped THEN Reverse(poly) ELSE poly]

Cube == Polygons(CubeVertex, CubeFace, {})

Icosahedron == Polygons(IcoVertex, IcoFace, {})

\* csgrs Polygon::edges: consecutive vertex pairs, the last wrapping to the first
PolyEdges(poly) == [i \in 1..Len(poly) |-> <<poly[i], poly[(i % Len(poly)) + 1]>>]

----------------------------------------------------------------------------
(* CsgrsApp::new *)

\* snap = |p| (*p * 1e5).round() as i64
snap(p) == RoundDiv(p, 10)

\* (i64, i64, i64) < (i64, i64, i64): lexicographic
TupleLess(ka, kb) ==
    \/ ka[1] < kb[1]
    \/ ka[1] = kb[1] /\ ka[2] < kb[2]
    \/ ka[1] = kb[1] /\ ka[2] = kb[2] /\ ka[3] < kb[3]

\* key without the ordering of the two endpoint keys
keyDirected(a, b) ==
    << <<snap(a[1]), snap(a[2]), snap(a[3])>>, <<snap(b[1]), snap(b[2]), snap(b[3])>> >>

\* the canonicalised key of the edge (a, b)
key(a, b) ==
    LET ka == <<snap(a[1]), snap(a[2]), snap(a[3])>>
        kb == <<snap(b[1]), snap(b[2]), snap(b[3])>>
    IN IF TupleLess(ka, kb) THEN <<ka, kb>> ELSE <<kb, ka>>

\* for poly in &cube.polygons { for (a, b) in poly.edges() { uniq.insert(key) } }:
\* the HashSet holds the key of every edge of every polygon
uniq(polys) ==
    {key(PolyEdges(polys[f])[i][1], PolyEdges(polys[f])[i][2]) :
        <<f, i>> \in {<<g, j>> \in (1..Len(polys)) \X (1..4) : j <= Len(polys[g])}}

\* v = |(x, y, z)| Vec3::new(x as f32, y as f32, z as f32) / 1e5
v(k) == <<RoundDiv(k[1], 100), RoundDiv(k[2], 100), RoundDiv(k[3], 100)>>

KeyLess(p, q) == TupleLess(p[1], q[1]) \/ (p[1] = q[1] /\ TupleLess(p[2], q[2]))

\* uniq.into_iter(): the keys in one of the orders a HashSet may yield them
IntoIter(set, ascending) ==
    LET rank == [k \in set |->
                    Cardinality({j \in set : IF ascending THEN KeyLess(j, k) ELSE KeyLess(k, j)})]
    IN [i \in 1..Cardinality(set) |-> CHOOSE k \in set : rank[k] = i - 1]

\* uniq.into_iter().map(|(ka, kb)| (v(ka), v(kb))).collect()
Collect(set, ascending) ==
    LET it == IntoIter(set, ascending)
    IN [i \in 1..Len(it) |-> <<v(it[i][1]), v(it[i][2])>>]

\* CsgrsApp::new: the app built from the polygons
new(polys, ascending) ==
    [rotation    |-> IDENTITY,
     translation |-> <<0, 0>>,
     zoom        |-> Num(1000),
     edges       |-> Collect(uniq(polys), ascending)]

\* #[derive(Default)]: Quat::default() is the identity, Vec2 and f32 are zero,
\* the Vec is empty
default ==
    [rotation    |-> IDENTITY,
     translation |-> <<0, 0>>,
     zoom        |-> Num(0),
     edges       |-> <<>>]

----------------------------------------------------------------------------
(* draw_csgrs_cube *)

Dot(a, b) == FMul(a[1], b[1]) + FMul(a[2], b[2]) + FMul(a[3], b[3])

Cross(a, b) ==
    << FMul(a[2], b[3]) - FMul(a[3], b[2]),
       FMul(a[3], b[1]) - FMul(a[1], b[3]),
       FMul(a[1], b[2]) - FMul(a[2], b[1]) >>

Scale(a, s) == <<FMul(a[1], s), FMul(a[2], s), FMul(a[3], s)>>

\* glam Quat * Vec3 (mul_vec3), q = <<x, y, z, w>> as f32
QuatMulVec3(q, rhs) ==
    LET w  == q[4]
        b  == <<q[1], q[2], q[3]>>
        b2 == Dot(b, b)
        t1 == Scale(rhs, FMul(w, w) - b2)
        t2 == Scale(b, 2 * Dot(rhs, b))
        t3 == Scale(Cross(b, rhs), 2 * w)
    IN <<t1[1] + t2[1] + t3[1], t1[2] + t2[2] + t3[2], t1[3] + t2[3] + t3[3]>>

\* let dist = 4.0
dist == 4000

\* the closure `project`; a NaN size gives the NaN point <<>>
project(p, q, size, rect, tr) ==
    IF size.k # "num" THEN <<>>
    ELSE LET rotated == QuatMulVec3(q, p)
             scale   == FDiv(dist, dist - rotated[3])
             px      == FMul(rotated[1], scale)
             py      == FMul(rotated[2], scale)
         IN <<rect.cx + FMul(px, size.v) + tr[1], rect.cy + FMul(-py, size.v) + tr[2]>>

\* let size = rect.width().min(rect.height()) * 0.25 * app.zoom
ViewSize(rect, z) == MulT(Num(FMul(Min(rect.w, rect.h), 250)), z)

\* app.rotation as the four f32 of a glam Quat
QuatF32(rot) == <<ToF32(rot[1]), ToF32(rot[2]), ToF32(rot[3]), ToF32(rot[4])>>

\* draw_csgrs_cube with the loop ending one edge early
drawAllButLast(rect, app) ==
    [i \in 1..(Len(app.edges) - 1) |->
        << project(app.edges[i][1], QuatF32(app.rotation), ViewSize(rect, app.zoom),
                   rect, app.translation),
           project(app.edges[i][2], QuatF32(app.rotation), ViewSize(rect, app.zoom),
                   rect, app.translation) >>]

\* draw_csgrs_cube: the segments handed to the painter, in call order:
\* for &(a, b) in &app.edges { painter.line_segment([project(a), project(b)], stroke) }.
\* project is pure, so it is evaluated once for each distinct endpoint (pt).
draw_csgrs_cube(rect, app) ==
    LET size == ViewSize(rect, app.zoom)
        q    == QuatF32(app.rotation)
        ends == {app.edges[i][j] : i \in 1..Len(app.edges), j \in 1..2}
        pt   == [p \in ends |-> project(p, q, size, rect, app.translation)]
    IN [i \in 1..Len(app.edges) |-> <<pt[app.edges[i][1]], pt[app.edges[i][2]]>>]

----------------------------------------------------------------------------
(* eframe::App::update *)

\* Rotate without the trailing `* self.rotation`
RotateFromRest(rot, delta) ==
    QMul(from_rotation_y(FMul(delta[1], 10)), from_rotation_x(FMul(delta[2], 10)))

\* left-drag: Quat::from_rotation_y(yaw) * Quat::from_rotation_x(pitch) * self.rotation
Rotate(rot, delta) ==
    LET yaw   == FMul(delta[1], 10)
        pitch == FMul(delta[2], 10)
    IN QMul(QMul(from_rotation_y(yaw), from_rotation_x(pitch)), rot)

\* Pan with the delta scaled by 0.01 as the rotation scales it
PanScaled(tr, delta) == <<tr[1] + FMul(delta[1], 10), tr[2] + FMul(delta[2], 10)>>

\* right-drag: self.translation += delta
Pan(tr, delta) == <<tr[1] + delta[1], tr[2] + delta[2]>>

\* the Interaction block with two independent ifs in place of if / else if
InteractBothIfs(app, in) ==
    LET turned == IF in.dragged /\ in.primary
                  THEN [app EXCEPT !.rotation = Rotate(app.rotation, in.delta)]
                  ELSE app
    IN IF in.dragged /\ in.secondary
       THEN [turned EXCEPT !.translation = Pan(app.translation, in.delta)]
       ELSE turned

\* the Interaction block: if dragged { if primary {..} else if secondary {..} }
Interact(app, in) ==
    IF in.dragged /\ in.primary
    THEN [app EXCEPT !.rotation = Rotate(app.rotation, in.delta)]
    ELSE IF in.dragged /\ in.secondary
    THEN [app EXCEPT !.translation = Pan(app.translation, in.delta)]
    ELSE app

\* Zoomed without the clamp
ZoomedUnclamped(z, scroll) == MulT(z, AddT(Num(1000), MulT(scroll, Num(1))))

\* (self.zoom * (1.0 + scroll * 0.001)).clamp(0.2, 5.0)
Zoomed(z, scroll) ==
    ClampT(MulT(z, AddT(Num(1000), MulT(scroll, Num(1)))), Num(200), Num(5000))

\* the zoom block as a further else branch of the drag handling
ScrollUnlessDragged(app, in) ==
    IF ~in.dragged /\ LessT(Num(0), AbsT(in.scroll))
    THEN [app EXCEPT !.zoom = ClampT(MulT(app.zoom, AddT(Num(1000), MulT(in.scroll, Num(1)))),
                                     Num(200), Num(5000))]
    ELSE app

\* scroll -> zoom: if scroll.abs() > 0.0 { self.zoom = ... }
Scroll(app, in) ==
    IF LessT(Num(0), AbsT(in.scroll))
    THEN [app EXCEPT !.zoom = Zoomed(app.zoom, in.scroll)]
    ELSE app

\* the app after the Interaction and zoom blocks of one frame
update(app, in) == Scroll(Interact(app, in), in)

----------------------------------------------------------------------------
(* What egui can report in one frame *)

\* 50*pi pixels: a drag of one DragUnit is a quarter turn
DragUnit == RoundDiv(50 * Pi, Milli)

\* the canvas rectangle of ui.allocate_exact_size: a wide and a tall window
Rects == {[cx |-> 100000, cy |-> 60000, w |-> 200000, h |-> 120000],
          [cx |-> 50000, cy |-> 80000, w |-> 100000, h |-> 160000]}

Wide == CHOOSE r \in Rects : r.w > r.h

\* raw_scroll_delta.y: none, one notch either way, the factor 0 (-1000),
\* a negative factor (-5000), and the infinities
Scrolls == {Num(0), Num(120000), Num(-120000), Num(-1000000), Num(-5000000),
            PosInf, NegInf}

\* response.drag_delta() while the widget is dragged
Deltas == {<<dx * DragUnit, dy * DragUnit>> : dx \in {-1, 0, 1, 2}, dy \in {0, 1}}

In(r, d, p, s, dl, sc) ==
    [rect |-> r, dragged |-> d, primary |-> p, secondary |-> s, delta |-> dl, scroll |-> sc]

\* every combination of drag state, buttons, drag delta and scroll:
\* response.drag_delta() is zero unless response.dragged()
Inputs ==
    {In(Wide, TRUE, p, s, dl, sc) :
        p \in BOOLEAN, s \in BOOLEAN, dl \in Deltas, sc \in Scrolls}
    \cup
    {In(Wide, FALSE, p, s, <<0, 0>>, sc) :
        p \in BOOLEAN, s \in BOOLEAN, sc \in Scrolls}

Tall == CHOOSE r \in Rects : r.h > r.w

\* the frame inputs the exploration feeds to update: every scroll with the
\* pointer idle, left-drags and right-drags with no scroll, and frames that
\* drag with both buttons, with neither, or while scrolling
FrameInputs ==
    {In(Wide, FALSE, FALSE, FALSE, <<0, 0>>, sc) : sc \in Scrolls}
    \cup {In(Wide, TRUE, TRUE, FALSE, dl, Num(0)) :
             dl \in {<<0, 0>>, <<DragUnit, 0>>, <<2 * DragUnit, 0>>, <<0, DragUnit>>,
                     <<-DragUnit, DragUnit>>}}
    \cup {In(Wide, TRUE, FALSE, TRUE, dl, Num(0)) :
             dl \in {<<0, 0>>, <<DragUnit, 0>>, <<-DragUnit, DragUnit>>}}
    \cup {In(Tall, FALSE, FALSE, FALSE, <<0, 0>>, Num(0)),
          In(Wide, TRUE, TRUE, TRUE, <<DragUnit, DragUnit>>, Num(0)),
          In(Wide, TRUE, FALSE, FALSE, <<DragUnit, DragUnit>>, Num(0)),
          In(Wide, FALSE, TRUE, TRUE, <<0, 0>>, Num(0)),
          In(Tall, TRUE, TRUE, FALSE, <<DragUnit, 0>>, Num(120000)),
          In(Wide, TRUE, FALSE, TRUE, <<0, DragUnit>>, Num(-120000))}

App == [rotation |-> rotation, translation |-> translation, zoom |-> zoom, edges |-> edges]

----------------------------------------------------------------------------
(* Actions *)

\* the state right after a constructor returned `app`
Constructed(app) ==
    /\ pc' = "run"
    /\ rotation' = app.rotation
    /\ translation' = app.translation
    /\ zoom' = app.zoom
    /\ edges' = app.edges
    /\ UNCHANGED <<mesh, segments, frames>>

\* CsgrsApp::new(cc)
New ==
    /\ pc = "start"
    /\ \E ascending \in BOOLEAN : Constructed(new(mesh, ascending))

\* CsgrsApp::default()
Default ==
    /\ pc = "start"
    /\ Constructed(default)

\* eframe::App::update: one frame, interaction then paint
Update ==
    /\ pc = "run"
    /\ frames < MaxFrames
    /\ \E in \in FrameInputs :
          \E app \in {update(App, in)} :
             /\ rotation' = app.rotation
             /\ translation' = app.translation
             /\ zoom' = app.zoom
             /\ edges' = app.edges
             /\ segments' = draw_csgrs_cube(in.rect, app)
             /\ frames' = frames + 1
    /\ UNCHANGED <<pc, mesh>>

----------------------------------------------------------------------------
(* Specifications *)

\* before construction: no app yet, its memory zeroed
Start(polys) ==
    /\ pc = "start"
    /\ mesh = polys
    /\ rotation = IDENTITY
    /\ translation = <<0, 0>>
    /\ zoom = Num(0)
    /\ edges = <<>>
    /\ segments = <<>>
    /\ frames = 0

\* the program as main/start run it: CsgrsApp::new on the icosahedron
Init ==
    \E ascending \in BOOLEAN :
        LET app == new(Icosahedron, ascending)
        IN /\ pc = "run"
           /\ mesh = Icosahedron
           /\ rotation = app.rotation
           /\ translation = app.translation
           /\ zoom = app.zoom
           /\ edges = app.edges
                  /\ segments = <<>>
           /\ frames = 0

Next == Update

Spec == Init /\ [][Next]_vars

\* CsgrsApp::new as a function of the polygons: closed solids whose faces
\* are wound either way
Meshes ==
    {Polygons(CubeVertex, CubeFace, F) : F \in SUBSET {1, 2, 3, 4, 5, 6}}
    \cup {Polygons(IcoVertex, IcoFace, F) : F \in SUBSET {1, 2, 6, 11, 16, 20}}

InitNew == \E m \in Meshes : Start(m)

NextNew == New

SpecNew == InitNew /\ [][NextNew]_vars

\* the app as a user of the crate can obtain and run it: either public
\* constructor, then frames
InitAny == Start(Icosahedron)

NextAny == New \/ Default \/ Update

SpecAny == InitAny /\ [][NextAny]_vars

----------------------------------------------------------------------------
(* Properties *)

\* a left-drag by delta, nothing else
LeftDrag(delta) == In(Wide, TRUE, TRUE, FALSE, delta, Num(0))

InRange(z) == z.k = "num" /\ 200 <= z.v /\ z.v <= 5000

\* C1: the zoom factor is within [0.2, 5.0] in every state reached by any
\* sequence of frames, and stays there under every frame input, whatever the
\* scroll (zero or negative factor, infinite) and the drag and buttons are.
ZoomInRange ==
    pc = "run" => /\ InRange(zoom)
                  /\ \A in \in Inputs : InRange(update(App, in).zoom)

\* C1 witness: an extreme scroll has driven the zoom onto the lower clamp
ZoomClampedLow == pc = "run" /\ frames > 0 /\ zoom = Num(200)

\* C2: a frame with zero drag delta and zero scroll leaves rotation,
\* translation and zoom as they were, whichever buttons are down and whether
\* or not a drag is in progress.
NoOpInputUnchanged ==
    \A in \in Inputs :
        (in.delta = <<0, 0>> /\ in.scroll = Num(0)) =>
            LET after == update(App, in)
            IN /\ after.rotation = rotation
               /\ after.translation = translation
               /\ after.zoom = zoom

\* C2 witness: frames have run and left all three fields off their initial
\* values, and a zero-delta primary drag is among the no-op inputs
NoOpOnMovedView ==
    /\ frames = MaxFrames
    /\ rotation # IDENTITY
    /\ translation # <<0, 0>>
    /\ zoom # Num(1000)
    /\ \E in \in FrameInputs : in.dragged /\ in.primary /\ in.delta = <<0, 0>>

\* C3: a drag with only the primary button down never changes the
\* translation; a drag with only the secondary button down never changes the
\* rotation and adds the unscaled drag delta to the translation.
DragButtonsSeparate ==
    \A in \in Inputs :
        LET after == update(App, in)
        IN /\ (in.dragged /\ in.primary /\ ~in.secondary) =>
                  after.translation = translation
           /\ (in.dragged /\ ~in.primary /\ in.secondary) =>
                  /\ after.rotation = rotation
                  /\ after.translation =
                         <<translation[1] + in.delta[1], translation[2] + in.delta[2]>>

\* C3 witness: a right-drag has panned by one drag unit each way after a
\* left-drag had turned the view
PannedAfterTurn ==
    /\ frames = 2
    /\ translation = <<-DragUnit, DragUnit>>
    /\ rotation = Rotate(IDENTITY, <<DragUnit, DragUnit>>)

\* C4: in every frame at most one of rotation and translation changes, and
\* a drag with both buttons down applies the rotation and leaves the
\* translation alone.
RotateOrPanNotBoth ==
    \A in \in Inputs :
        LET after == update(App, in)
        IN /\ \/ after.rotation = rotation
              \/ after.translation = translation
           /\ (in.dragged /\ in.primary /\ in.secondary) =>
                  /\ after.rotation = Rotate(rotation, in.delta)
                  /\ after.translation = translation

\* C4 witness: after a pan, a drag that can be made with both buttons down
\* has turned the view and the pan is still what it was
TurnedAfterPan ==
    /\ frames = 2
    /\ translation = <<DragUnit, 0>>
    /\ rotation = Rotate(IDENTITY, <<DragUnit, DragUnit>>)

\* the norm of a quaternion is exactly 1: with components (a + b*sqrt(2))/2,
\* the squares sum to (sum(a*a + 2*b*b) + 2*sqrt(2)*sum(a*b))/4
IsUnit(q) ==
    /\ q[1][1] * q[1][1] + q[2][1] * q[2][1] + q[3][1] * q[3][1] + q[4][1] * q[4][1]
       + 2 * (q[1][2] * q[1][2] + q[2][2] * q[2][2] + q[3][2] * q[3][2] + q[4][2] * q[4][2]) = 4
    /\ q[1][1] * q[1][2] + q[2][1] * q[2][2] + q[3][1] * q[3][2] + q[4][1] * q[4][2] = 0

\* C5: the rotation is a unit quaternion in every state reached by any
\* sequence of frames, and after every further frame input.
RotationIsUnit ==
    pc = "run" => /\ IsUnit(rotation)
                  /\ \A in \in Inputs : IsUnit(update(App, in).rotation)

\* C5 witness: a yaw drag and then a yaw-and-pitch drag have composed into
\* a rotation with irrational components that neither drag gives alone
TurnedTwice ==
    /\ frames = 2
    /\ rotation = Rotate(Rotate(IDENTITY, <<DragUnit, 0>>), <<DragUnit, DragUnit>>)
    /\ rotation # Rotate(IDENTITY, <<DragUnit, DragUnit>>)
    /\ \E c \in 1..4 : rotation[c][2] # 0

\* the yaw-only drag deltas
YawDeltas == {dl \in Deltas : dl[2] = 0}

\* C6: two yaw-only left-drags in sequence give the rotation of the single
\* yaw-only left-drag whose delta.x is the sum of theirs (equal magnitudes d
\* and d give the rotation of 2d), from every reachable state.
YawDragsAdd ==
    \A d1 \in YawDeltas, d2 \in YawDeltas :
        update(update(App, LeftDrag(d1)), LeftDrag(d2)).rotation
            = update(App, LeftDrag(<<d1[1] + d2[1], 0>>)).rotation

\* C6 witness: two yaw-only drags of one unit have run on the initial state
\* and left the half turn about y
TwoYawDrags ==
    /\ frames = 2
    /\ rotation = <<S0, S1, S0, S0>>
    /\ rotation = update(update(new(mesh, TRUE), LeftDrag(<<DragUnit, 0>>)),
                         LeftDrag(<<DragUnit, 0>>)).rotation

\* the key of a vertex position
vertexKey(a) == <<snap(a[1]), snap(a[2]), snap(a[3])>>

\* the undirected edges of the polygons, as sets of two positions
MeshEdges(polys) ==
    {{PolyEdges(polys[f])[i][1], PolyEdges(polys[f])[i][2]} :
        <<f, i>> \in {<<g, j>> \in (1..Len(polys)) \X (1..4) : j <= Len(polys[g])}}

\* the polygons an undirected edge belongs to
Sharing(polys, e) ==
    {f \in 1..Len(polys) :
        \E i \in 1..Len(polys[f]) :
            {PolyEdges(polys[f])[i][1], PolyEdges(polys[f])[i][2]} = e}

\* C7: in the edges built from a closed mesh, every edge shared by exactly
\* two polygons appears exactly once, whichever way each face traverses it;
\* the cube's 6 quads give 12 edges and the icosahedron's 20 triangles 30.
SharedEdgesOnce ==
    pc = "run" =>
        /\ \A e \in MeshEdges(mesh) :
               Cardinality(Sharing(mesh, e)) = 2 =>
                   Cardinality({i \in 1..Len(edges) :
                       {edges[i][1], edges[i][2]} = {v(vertexKey(a)) : a \in e}}) = 1
        /\ Len(mesh) = 6 => Len(edges) = 12
        /\ Len(mesh) = 20 => Len(edges) = 30

\* C7 witness: the icosahedron, all faces wound alike (every edge is
\* traversed once in each direction), has been built into 30 edges
IcosahedronBuilt ==
    /\ pc = "run"
    /\ mesh = Icosahedron
    /\ Len(edges) = 30
    /\ \A e \in MeshEdges(mesh) : Cardinality(Sharing(mesh, e)) = 2

\* the edge lists CsgrsApp::new can build from the icosahedron
BuiltEdges == {new(Icosahedron, ascending).edges : ascending \in BOOLEAN}

\* the segment the projector owes for edge e under the current view
Projected(e, rect) ==
    << project(e[1], QuatF32(rotation), ViewSize(rect, zoom), rect, translation),
       project(e[2], QuatF32(rotation), ViewSize(rect, zoom), rect, translation) >>

\* C8: the paint step emits exactly one segment per edge, in the order of
\* the edges, each the projection of its edge under the view left by this
\* frame's interaction, and the edges are in every state the ones built at
\* construction.
PaintOneSegmentPerEdge ==
    pc = "run" =>
        /\ edges \in BuiltEdges
        /\ frames > 0 =>
               \E rect \in Rects :
                   /\ Len(segments) = Len(edges)
                   /\ \A i \in 1..Len(edges) : segments[i] = Projected(edges[i], rect)

\* C8 witness: a frame has painted the 30 edges of the turned, panned and
\* zoomed icosahedron
PaintedMovedView ==
    /\ frames > 0
    /\ Len(segments) = 30
    /\ rotation # IDENTITY
    /\ translation # <<0, 0>>
    /\ zoom # Num(1000)

\* clamp(z * (1 + scroll * 0.001), 0.2, 5.0), as the specification writes it
ClampedProduct(z, scroll) ==
    LET factor  == AddT(Num(1000), MulT(scroll, Num(1)))
        product == MulT(z, factor)
    IN IF product.k = "nan" THEN product
       ELSE IF LessT(product, Num(200)) THEN Num(200)
       ELSE IF LessT(Num(5000), product) THEN Num(5000)
       ELSE product

\* C9: every frame with a non-zero scroll sets the zoom to
\* clamp(zoom * (1 + scroll * 0.001), 0.2, 5.0) whether or not a drag is in
\* progress and whichever buttons are down, and no frame with a zero scroll
\* changes the zoom.
ZoomIgnoresDrag ==
    \A in \in Inputs :
        /\ in.scroll # Num(0) => update(App, in).zoom = ClampedProduct(zoom, in.scroll)
        /\ in.scroll = Num(0) => update(App, in).zoom = zoom

\* C9 witness: one frame has both turned and zoomed the initial view
TurnedAndZoomed ==
    /\ frames = 1
    /\ rotation = Rotate(IDENTITY, <<DragUnit, 0>>)
    /\ zoom = Num(1120)

\* C10: every constructed app, by CsgrsApp::new or by the derived
\* CsgrsApp::default, starts with the identity rotation, zero translation
\* and zoom 1.0, hence inside the zoom range.
ConstructorsAgree ==
    (pc = "run" /\ frames = 0) =>
        /\ rotation = IDENTITY
        /\ translation = <<0, 0>>
        /\ zoom = Num(1000)
        /\ InRange(zoom)

====
